---- MODULE Spec2Model ----
(***************************************************************************)
(* Streaming Ogg page / packet readers (src/src/ogg_pager.rs) and the      *)
(* Ogg/Opus encoder framing (src/src/ogg_opus.rs) of kaudio.               *)
(*                                                                         *)
(* Bytes are naturals in 0..255, byte buffers are sequences.  A field of   *)
(* the packed header that is wider than one byte is kept as the bytes it   *)
(* occupies in memory (read_unaligned copies them verbatim).  The fields   *)
(* of the packed structs all have alignment 1, so rustc lays them out in   *)
(* declaration order.                                                      *)
(***************************************************************************)
EXTENDS Integers, Sequences, FiniteSets, TLC

VARIABLES
    input,      \* the byte stream the environment delivers to the reader
    fed,        \* how many bytes of input have been appended so far
    data,       \* PageReader.data : the backlog
    pages,      \* history: the pages PageReader.next has returned, in order
    last,       \* history: the last operation on the reader and its result
    bytewise,   \* history: every append so far was one byte, drained to None
    one_pc,     \* the all-at-once reader: "start", "drain" or "done"
    one_data,   \* the all-at-once reader's backlog
    one_pages,  \* the pages the all-at-once reader has returned
    one_res,    \* the result that ended the all-at-once reader's drain
    segments,   \* PacketReader.segments : the segments of the open packet
    packets,    \* PacketReader.packets : completed packets not yet returned
    got,        \* history: the packets PacketReader.next has returned
    out_pcm,    \* Encoder.out_pcm : the samples not yet encoded
    total_data, \* Encoder.total_data : the samples drained so far
    pw_inner,   \* Encoder.pw : the writer's output buffer
    pw_seq,     \* Encoder.pw : the writer's next page sequence number
    header_data,\* Encoder.header_data
    enc_last,   \* history: the last call on the encoder and what it returned
    pushed,     \* history: the samples handed to encode_page so far
    frames,     \* history: per drained frame, the codec's result and the
                \* granule position passed to the writer
    calls,      \* history: the number of encode_page calls so far
    sample_rate,            \* the rate Decoder::new was given
    flush_every_n_samples,  \* Decoder.flush_every_n_samples
    pcm_len,    \* Decoder.pcm_buf.len(); the samples themselves are the
                \* codec's and are not modelled
    size_in_buf,\* Decoder.size_in_buf : the write offset into pcm_buf
    dec_last,   \* history: the last decode call and what it returned
    returned,   \* history: the lengths of the slices decode has returned
    decoded,    \* history: the audio packets the codec has decoded, in order
    chan,       \* AsyncDecoder: the chunks queued in the unbounded channel
    tx,         \* AsyncDecoder: the producer's Sender handle (open or dropped)
    relay,      \* AsyncDecoder: the spawned task, its position and the bytes
                \* of the chunk it is writing
    pipe,       \* AsyncDecoder: the bytes held by the duplex stream
    rd_pc,      \* AsyncDecoder: "idle", or "wait" while a read() call is
                \* awaiting the packet reader
    arrived     \* history: the bytes the packet reader has taken off the pipe

vars == <<input, fed, data, pages, last, bytewise,
          one_pc, one_data, one_pages, one_res, segments, packets, got,
          out_pcm, total_data, pw_inner, pw_seq, header_data, enc_last,
          pushed, frames, calls,
          sample_rate, flush_every_n_samples, pcm_len, size_in_buf,
          dec_last, returned, decoded,
          chan, tx, relay, pipe, rd_pc, arrived>>

encVars == <<out_pcm, total_data, pw_inner, pw_seq, header_data, enc_last,
             pushed, frames, calls>>
readerVars == <<input, fed, data, pages, last>>

pageVars == <<bytewise, one_pc, one_data, one_pages, one_res>>
packetVars == <<segments, packets, got>>
decVars == <<sample_rate, flush_every_n_samples, pcm_len, size_in_buf,
             dec_last, returned, decoded>>
asyncVars == <<chan, tx, relay, pipe, rd_pc, arrived>>

----------------------------------------------------------------------------
(* Bounds of the model *)

\* the longest input stream, in page-sized blobs
MaxPages == 2

\* the most full 255-byte segments of a packet handed to the writer
MaxFull == 2

\* the most encode_page calls on one encoder
MaxCalls == 3

----------------------------------------------------------------------------
(* Helpers over byte sequences *)

RECURSIVE Sum(_)
Sum(s) == IF s = <<>> THEN 0 ELSE Head(s) + Sum(Tail(s))

RECURSIVE Flatten(_)
Flatten(ss) == IF ss = <<>> THEN <<>> ELSE Head(ss) \o Flatten(Tail(ss))

\* self.data.drain(..n) / &data[n..]
Drop(d, n) == SubSeq(d, n + 1, Len(d))

\* &data[..n]
Take(d, n) == SubSeq(d, 1, n)

\* the element of a one-element set: Only({e(x) : x \in {v}}) is e(v) with v
\* computed once
Only(S) == CHOOSE x \in S : TRUE

\* n bytes that differ from their neighbours: payloads and opaque fields
Fill(n, seed) == [i \in 1..n |-> (seed + 7 * i) % 256]

----------------------------------------------------------------------------
(* OggHeader and PageReader *)

\* std::mem::size_of::<OggHeader>() of the packed struct: 4+1+1+8+4+4+4+1
HdrSize == 27

\* b"OggS"
OggS == <<79, 103, 103, 83>>

\* std::ptr::read_unaligned(self.data.as_ptr() as *const OggHeader)
ReadHeader(d) ==
    [ capture_pattern  |-> SubSeq(d, 1, 4),
      version          |-> d[5],
      header_type      |-> d[6],
      granule_position |-> SubSeq(d, 7, 14),
      bitstream_serial |-> SubSeq(d, 15, 18),
      page_sequence    |-> SubSeq(d, 19, 22),
      checksum         |-> SubSeq(d, 23, 26),
      page_segments    |-> d[27] ]

\* &self.data[hdr_size..hdr_size + nsegments]
SegmentTable(d, nsegments) == SubSeq(d, HdrSize + 1, HdrSize + nsegments)

\* a page size that forgets the payload the table declares
PageSizeHeaderOnly(nsegments, table) == HdrSize + nsegments

\* hdr_size + nsegments + segment_table.iter().sum()
PageSize(nsegments, table) == HdrSize + nsegments + Sum(table)

\* a completeness test that is off by one byte
PageMissingOffByOne(d, page_size) == Len(d) < page_size - 1

\* self.data.len() < page_size
PageMissing(d, page_size) == Len(d) < page_size

\* a drain that empties the whole backlog
DrainAll(d, page_size) == <<>>

\* self.data.drain(..page_size)
DrainPage(d, page_size) == Drop(d, page_size)

\* a capture test that looks at the first byte only
BadCaptureFirstByte(hdr) == hdr.capture_pattern[1] # OggS[1]

\* &hdr.capture_pattern != b"OggS"
BadCapture(hdr) == hdr.capture_pattern # OggS

\* hdr.version != 0
BadVersion(hdr) == hdr.version # 0

\* the loop pushing self.data[start_offset..start_offset + slen] per entry
RECURSIVE SliceSegments(_, _, _)
SliceSegments(d, table, start_offset) ==
    IF table = <<>> THEN <<>>
    ELSE <<SubSeq(d, start_offset + 1, start_offset + Head(table))>>
         \o SliceSegments(d, Tail(table), start_offset + Head(table))

NoPage == [header |-> <<>>, segments |-> <<>>]

\* an error path that drops the first byte of the backlog to resynchronise
FailSkipsByte(d, e) == [kind |-> "err", err |-> e, page |-> NoPage, data |-> Tail(d)]

NeedMore(d)  == [kind |-> "none", err |-> "", page |-> NoPage, data |-> d]
Fail(d, e)   == [kind |-> "err", err |-> e, page |-> NoPage, data |-> d]
Panic(d)     == [kind |-> "panic", err |-> "", page |-> NoPage, data |-> d]

\* self.data.len() < hdr_size
HeaderMissing(d) == Len(d) < HdrSize

\* PageReader::next on backlog d: the result and the backlog it leaves
PageReaderNext(d) ==
    IF HeaderMissing(d) THEN NeedMore(d)
    ELSE
    LET hdr == ReadHeader(d)
        nsegments == hdr.page_segments
    IN  IF BadCapture(hdr) THEN Fail(d, "capture_pattern")
        ELSE IF BadVersion(hdr) THEN Fail(d, "version")
        ELSE IF Len(d) < HdrSize + nsegments THEN NeedMore(d)
        ELSE
        LET segment_table == SegmentTable(d, nsegments)
            page_size == PageSize(nsegments, segment_table)
        IN  IF PageMissing(d, page_size) THEN NeedMore(d)
            ELSE IF Len(d) < HdrSize + nsegments + Sum(segment_table)
                 THEN Panic(d)   \* a slice index past the end of the Vec
            ELSE [ kind |-> "page", err |-> "",
                   page |-> [ header |-> hdr,
                              segments |-> SliceSegments(d, segment_table,
                                                         HdrSize + nsegments) ],
                   data |-> DrainPage(d, page_size) ]

----------------------------------------------------------------------------
(* PacketReader *)

\* the lacing value that continues a packet
LacingFull == 255

\* a terminator test that also ends a packet on a full segment
TerminatesInclusive(slen) == slen <= LacingFull

\* slen < 255
Terminates(slen) == slen < LacingFull

\* a packet made of the last segment only
ConcatLastOnly(segs) == segs[Len(segs)]

\* self.segments.concat()
ConcatSegments(segs) == Flatten(segs)

\* for segment in page.segments.into_iter() { ... }
RECURSIVE AbsorbSegments(_, _, _)
AbsorbSegments(segs, acc, queue) ==
    IF segs = <<>> THEN [segments |-> acc, packets |-> queue]
    ELSE LET held == Append(acc, Head(segs))
         IN  IF Terminates(Len(Head(segs)))
             THEN AbsorbSegments(Tail(segs), <<>>,
                                 Append(queue, ConcatSegments(held)))
             ELSE AbsorbSegments(Tail(segs), held, queue)

\* one pass of `while let Some(page) = self.page_reader.next()? { ... }` on
\* the loop state st; st.kind is "page" while the loop runs and else tells
\* how it ended (None or an error)
DrainStep(st) ==
    Only({ IF r.kind = "page"
           THEN Only({ [ kind |-> "page", err |-> "", data |-> r.data,
                         segments |-> a.segments, packets |-> a.packets,
                         parsed |-> Append(st.parsed, r.page) ]
                       : a \in {AbsorbSegments(r.page.segments, st.segments,
                                               st.packets)} })
           ELSE [ kind |-> r.kind, err |-> r.err, data |-> r.data,
                  segments |-> st.segments, packets |-> st.packets,
                  parsed |-> st.parsed ]
           : r \in {PageReaderNext(st.data)} })

\* up to n passes of the loop, stopping at the pass that ends it; the passes
\* are split in halves so that long backlogs are evaluated at small depth
RECURSIVE DrainLoop(_, _)
DrainLoop(n, st) ==
    IF n <= 1 THEN DrainStep(st)
    ELSE Only({ IF half.kind # "page" THEN half
                ELSE DrainLoop(n - n \div 2, half)
                : half \in {DrainLoop(n \div 2, st)} })

\* the whole loop: the state it leaves, the pages it parsed and how it
\* ended; every page takes at least HdrSize bytes off the backlog, which
\* bounds the passes
DrainPages(d, acc, queue, parsed) ==
    DrainLoop(Len(d) \div HdrSize + 1,
              [ kind |-> "page", err |-> "", data |-> d, segments |-> acc,
                packets |-> queue, parsed |-> parsed ])

\* PacketReader::next: the result and the state it leaves
PacketReaderNext(d, acc, queue) ==
    Only({ IF dr.kind # "none"
           THEN \* the ? operator returns the parser's error before pop_front
                [ kind |-> dr.kind, err |-> dr.err, packet |-> <<>>,
                  data |-> dr.data, segments |-> dr.segments,
                  packets |-> dr.packets, parsed |-> dr.parsed ]
           ELSE IF dr.packets = <<>>
           THEN [ kind |-> "none", err |-> "", packet |-> <<>>,
                  data |-> dr.data, segments |-> dr.segments,
                  packets |-> dr.packets, parsed |-> dr.parsed ]
           ELSE [ kind |-> "packet", err |-> "", packet |-> Head(dr.packets),
                  data |-> dr.data, segments |-> dr.segments,
                  packets |-> Tail(dr.packets), parsed |-> dr.parsed ]
           : dr \in {DrainPages(d, acc, queue, <<>>)} })

----------------------------------------------------------------------------
(* The page writer the encoder drives (ogg::PacketWriter::write_packet with *)
(* PacketWriteEndInfo::EndPage), for packets of at most 254 full segments:  *)
(* one packet, one page.                                                    *)

\* little-endian bytes of v, width w
RECURSIVE LittleEndian(_, _)
LittleEndian(v, w) ==
    IF w = 0 THEN <<>> ELSE <<v % 256>> \o LittleEndian(v \div 256, w - 1)

\* one 255 per full 255-byte chunk, then the remainder (possibly 0)
LacingTable(len) ==
    [i \in 1..(len \div 255 + 1) |-> IF i <= len \div 255 THEN 255 ELSE len % 255]

\* the stream serial every write_packet call of this repository passes
StreamSerial == 42

\* the serialised page of one packet; the checksum field, which no reader of
\* this repository looks at, is left zero
WritePage(packet, absgp, sequence_num) ==
    OggS \o <<0, IF sequence_num = 0 THEN 2 ELSE 0>>
    \o LittleEndian(absgp, 8) \o LittleEndian(StreamSerial, 4)
    \o LittleEndian(sequence_num, 4) \o <<0, 0, 0, 0>>
    \o <<Len(packet) \div 255 + 1>> \o LacingTable(Len(packet)) \o packet

----------------------------------------------------------------------------
(* Encoder *)

\* const OPUS_ENCODER_FRAME_SIZE
OPUS_ENCODER_FRAME_SIZE == 960

\* b"OpusHead", b"OpusTags", "KyutaiMoshi"
OpusHeadMagic == <<79, 112, 117, 115, 72, 101, 97, 100>>
OpusTagsMagic == <<79, 112, 117, 115, 84, 97, 103, 115>>
Vendor == <<75, 121, 117, 116, 97, 105, 77, 111, 115, 104, 105>>

\* an identification header that starts with the comment header's magic
WriteOpusHeaderWrongMagic ==
    OpusTagsMagic \o <<1, 1>> \o LittleEndian(3840, 2) \o LittleEndian(48000, 4)
    \o LittleEndian(0, 2) \o <<0>>

\* write_opus_header
write_opus_header ==
    OpusHeadMagic \o <<1, 1>> \o LittleEndian(3840, 2) \o LittleEndian(48000, 4)
    \o LittleEndian(0, 2) \o <<0>>

\* write_opus_tags
write_opus_tags ==
    OpusTagsMagic \o LittleEndian(Len(Vendor), 4) \o Vendor \o LittleEndian(0, 4)

\* Encoder::new: the two metadata packets, each written as its own page with
\* granule position 0, taken out of the writer as header_data
EncoderNew ==
    LET page0 == WritePage(write_opus_header, 0, 0)
        page1 == WritePage(write_opus_tags, 0, 1)
    IN  [ header_data |-> page0 \o page1,
          pw_inner    |-> <<>>,
          pw_seq      |-> 2,
          total_data  |-> 0,
          out_pcm     |-> <<>> ]

\* the codec, an external collaborator: per frame it fails (-1) or returns
\* the size of the encoded packet, which the code allows to be 0
CodecOutcomes == {-1, 0, 3}

\* self.out_pcm_buf[..size]: the packet of a frame, bytes chosen by the codec
CodecBytes(chunk, size) == Fill(size, chunk[1])

\* a chunk count that rounds a started frame up to a whole one
ChunkCountCeil(len) == (len + OPUS_ENCODER_FRAME_SIZE - 1) \div OPUS_ENCODER_FRAME_SIZE

\* a chunk count that leaves a whole frame behind
ChunkCountShort(len) == (len - 1) \div OPUS_ENCODER_FRAME_SIZE

\* self.out_pcm.len() / OPUS_ENCODER_FRAME_SIZE
ChunkCount(len) == len \div OPUS_ENCODER_FRAME_SIZE

\* a granule position taken before the frame is counted
GranuleBeforeFrame(total) == total - OPUS_ENCODER_FRAME_SIZE

\* self.total_data as u64, the granule position passed to write_packet
Granule(total) == total

\* if size > 0
WritesPage(size) == size > 0

\* a writer buffer that keeps the bytes it has handed over
KeepInner(written) == written

\* data.clear(), after the bytes of the writer's buffer were moved to encoded
ClearInner(written) == <<>>

\* the body of `for _chunk_id in 0..nchunks` on the loop state st, with
\* Head(st.outs) the codec's result for the frame; st.kind is "run" while
\* the loop runs
EncodeStep(st) ==
    IF Len(st.out_pcm) < OPUS_ENCODER_FRAME_SIZE
    THEN \* pop_front returned None: the queue has been emptied by the pops
         [st EXCEPT !.kind = "err", !.err = "OpusMissingPcm", !.bytes = <<>>,
                    !.out_pcm = <<>>]
    ELSE
    LET chunk  == Take(st.out_pcm, OPUS_ENCODER_FRAME_SIZE)
        rest   == Drop(st.out_pcm, OPUS_ENCODER_FRAME_SIZE)
        total2 == st.total_data + Len(chunk)
        size   == Head(st.outs)
        entry  == [size |-> size, gp |-> Granule(total2)]
    IN  IF size < 0
        THEN \* encode_float(..)? returns the codec's error
             [st EXCEPT !.kind = "err", !.err = "Opus", !.bytes = <<>>,
                        !.out_pcm = rest, !.total_data = total2,
                        !.log = Append(@, entry)]
        ELSE IF WritesPage(size)
        THEN LET written == st.pw_inner \o WritePage(CodecBytes(chunk, size),
                                                     Granule(total2), st.pw_seq)
             IN  [st EXCEPT !.out_pcm = rest, !.total_data = total2,
                            !.pw_inner = IF written # <<>>
                                         THEN ClearInner(written) ELSE written,
                            !.pw_seq = @ + 1,
                            !.bytes = IF written # <<>> THEN @ \o written ELSE @,
                            !.outs = Tail(@), !.log = Append(@, entry)]
        ELSE [st EXCEPT !.out_pcm = rest, !.total_data = total2,
                        !.outs = Tail(@), !.log = Append(@, entry)]

\* n passes of the loop, stopping at a pass that returns an error; the
\* passes are split in halves so that many frames are evaluated at small
\* depth
RECURSIVE EncodeLoop(_, _)
EncodeLoop(n, st) ==
    IF n <= 0 THEN st
    ELSE IF n = 1 THEN EncodeStep(st)
    ELSE Only({ IF half.kind # "run" THEN half
                ELSE EncodeLoop(n - n \div 2, half)
                : half \in {EncodeLoop(n \div 2, st)} })

\* the loop of encode_page, once per entry of outs (the codec's result for
\* each frame of this call), and the Ok it ends with
EncodeChunks(q, total, inner, seq, encoded, outs, log) ==
    Only({ [ kind |-> IF r.kind = "run" THEN "ok" ELSE r.kind,
             err |-> r.err, bytes |-> r.bytes,
             out_pcm |-> r.out_pcm, total_data |-> r.total_data,
             pw_inner |-> r.pw_inner, pw_seq |-> r.pw_seq, log |-> r.log ]
           : r \in { EncodeLoop(Len(outs),
                        [ kind |-> "run", err |-> "", bytes |-> encoded,
                          out_pcm |-> q, total_data |-> total,
                          pw_inner |-> inner, pw_seq |-> seq, outs |-> outs,
                          log |-> log ]) } })

\* Encoder::encode_page(pcm) with the codec results outs
EncodePageResult(q, total, inner, seq, pcm, outs) ==
    EncodeChunks(q \o pcm, total, inner, seq, <<>>, outs, <<>>)

----------------------------------------------------------------------------
(* Serialisation of a page, the inverse of the layout next() reads *)

HeaderBytes(h) ==
    h.capture_pattern \o <<h.version, h.header_type>> \o h.granule_position
    \o h.bitstream_serial \o h.page_sequence \o h.checksum
    \o <<h.page_segments>>

RECURSIVE Lengths(_)
Lengths(ss) == IF ss = <<>> THEN <<>> ELSE <<Len(Head(ss))>> \o Lengths(Tail(ss))

PageBytes(p) == HeaderBytes(p.header) \o Lengths(p.segments) \o Flatten(p.segments)

RECURSIVE PagesBytes(_)
PagesBytes(ps) == IF ps = <<>> THEN <<>> ELSE PageBytes(Head(ps)) \o PagesBytes(Tail(ps))

----------------------------------------------------------------------------
(* The inputs: streams of well-formed and malformed pages *)

\* a serialised page with the given magic, version and segment-length table
Blob(magic, version, table, seed) ==
    magic \o <<version, 0>> \o Fill(8, seed) \o <<42, 0, 0, 0>> \o Fill(4, seed + 1)
    \o Fill(4, seed + 2) \o <<Len(table)>> \o table \o Fill(Sum(table), seed + 3)

PageBlobs ==
    { Blob(OggS, 0, <<>>, 1),
      Blob(OggS, 0, <<2>>, 2),
      Blob(OggS, 0, <<0, 1>>, 3),
      Blob(<<79, 103, 103, 84>>, 0, <<1>>, 4),
      Blob(OggS, 1, <<1>>, 5),
      Blob(<<79, 103, 103, 84>>, 1, <<1>>, 7),
      \* a page cut short after its segment table
      Take(Blob(OggS, 0, <<2, 1>>, 6), HdrSize + 2) }

RECURSIVE StreamsOf(_, _)
StreamsOf(B, n) ==
    IF n = 0 THEN {<<>>}
    ELSE LET S == StreamsOf(B, n - 1) IN S \cup {s \o b : s \in S, b \in B}

PageStreams == StreamsOf(PageBlobs, MaxPages)

\* the sizes of the slices handed to append_bytes
ChunkSizes(rest) == {n \in {1, 2, HdrSize, rest} : 1 <= n /\ n <= rest}

\* pages for the packet reader: packets that end in their page, packets left
\* open by a final 255 segment, an empty page and a page with a bad magic
PacketBlobs ==
    { Blob(OggS, 0, <<255>>, 10),
      Blob(OggS, 0, <<3>>, 20),
      Blob(OggS, 0, <<2, 0, 255>>, 30),
      Blob(OggS, 0, <<>>, 40),
      Blob(<<79, 103, 103, 84>>, 0, <<1>>, 50) }

\* the packets handed to the writer: every remainder class around 255
PacketLens == {255 * k + r : k \in 0..MaxFull, r \in {0, 1, 254}}

Payload(len) == Fill(len, len)

WriterStreams == {WritePage(Payload(len), 960, 2) : len \in PacketLens}

PacketStreams == StreamsOf(PacketBlobs, MaxPages) \cup WriterStreams

\* the sizes of the slices handed to PacketReader::append_bytes
PacketChunkSizes(rest) == {n \in {HdrSize, 256, rest} : 1 <= n /\ n <= rest}

----------------------------------------------------------------------------
(* State machine of the PageReader *)

\* no format error met so far
NoFail == [err |-> "", at |-> 0, pre |-> <<>>]

\* the first format error next() returned: its kind, the number of input
\* bytes appended by then and the backlog it was found in
FirstFail(fail, r, d, n) ==
    IF r.kind = "err" /\ fail.err = ""
    THEN [err |-> r.err, at |-> n, pre |-> d]
    ELSE fail

DecIdle == [op |-> "new", kind |-> "", err |-> "", len |-> 0, before |-> 0,
            first |-> 1, first_got |-> 1, single |-> TRUE]

\* no Decoder has been constructed
NoDecoder ==
    /\ sample_rate = 0
    /\ flush_every_n_samples = 0
    /\ pcm_len = 0
    /\ size_in_buf = 0
    /\ dec_last = DecIdle
    /\ returned = <<>>
    /\ decoded = <<>>

\* no AsyncDecoder has been constructed
NoAsync ==
    /\ chan = <<>>
    /\ tx = [open |-> FALSE, left |-> 0]
    /\ relay = [pc |-> "done", cur |-> <<>>]
    /\ pipe = <<>>
    /\ rd_pc = "idle"
    /\ arrived = <<>>

Idle == [op |-> "new", kind |-> "", err |-> "", pre |-> <<>>, fail |-> NoFail]

EncIdle == [op |-> "new", kind |-> "", err |-> "", bytes |-> <<>>,
            before |-> 0, first |-> 1]

Init ==
    /\ input \in PageStreams
    /\ fed = 0
    /\ data = <<>>
    /\ pages = <<>>
    /\ last = Idle
    /\ bytewise = TRUE
    /\ one_pc = "start"
    /\ one_data = <<>>
    /\ one_pages = <<>>
    /\ one_res = [kind |-> "", err |-> ""]
    /\ segments = <<>>
    /\ packets = <<>>
    /\ got = <<>>
    /\ out_pcm = <<>>
    /\ total_data = 0
    /\ pw_inner = <<>>
    /\ pw_seq = 0
    /\ header_data = <<>>
    /\ enc_last = EncIdle
    /\ pushed = 0
    /\ frames = <<>>
    /\ calls = 0
    /\ NoDecoder
    /\ NoAsync

\* the all-at-once reader: PageReader::new then append_bytes(input)
OneAppendAll ==
    /\ one_pc = "start"
    /\ one_data' = input
    /\ one_pc' = "drain"
    /\ UNCHANGED <<input, fed, data, pages, last, bytewise, one_pages, one_res>>
    /\ UNCHANGED <<packetVars, encVars>>
    /\ UNCHANGED <<decVars, asyncVars>>

\* the all-at-once reader: one next() of the loop that runs to None or an error
OneNext ==
    /\ one_pc = "drain"
    /\ LET r == PageReaderNext(one_data)
       IN  /\ one_data' = r.data
           /\ one_pages' = IF r.kind = "page" THEN Append(one_pages, r.page)
                           ELSE one_pages
           /\ one_pc' = IF r.kind = "page" THEN "drain" ELSE "done"
           /\ one_res' = IF r.kind = "page" THEN one_res
                         ELSE [kind |-> r.kind, err |-> r.err]
    /\ UNCHANGED <<input, fed, data, pages, last, bytewise, packetVars, encVars>>
    /\ UNCHANGED <<decVars, asyncVars>>

\* PageReader::append_bytes with the next n bytes of the input
AppendBytes ==
    /\ one_pc = "done"
    /\ \E n \in ChunkSizes(Len(input) - fed) :
        /\ data' = data \o SubSeq(input, fed + 1, fed + n)
        /\ fed' = fed + n
        /\ bytewise' = (bytewise /\ n = 1
                        /\ (last.op = "new" \/ (last.op = "next" /\ last.kind = "none")))
    /\ last' = [op |-> "append", kind |-> "", err |-> "", pre |-> <<>>,
                fail |-> last.fail]
    /\ UNCHANGED <<input, pages, one_pc, one_data, one_pages, one_res, packetVars, encVars>>
    /\ UNCHANGED <<decVars, asyncVars>>

\* PageReader::next
PageNext ==
    /\ one_pc = "done"
    /\ LET r == PageReaderNext(data)
       IN  /\ data' = r.data
           /\ pages' = IF r.kind = "page" THEN Append(pages, r.page) ELSE pages
           /\ last' = [op |-> "next", kind |-> r.kind, err |-> r.err, pre |-> data,
                       fail |-> FirstFail(last.fail, r, data, fed)]
    /\ UNCHANGED <<input, fed, bytewise, one_pc, one_data, one_pages, one_res, packetVars, encVars>>
    /\ UNCHANGED <<decVars, asyncVars>>

Next == OneAppendAll \/ OneNext \/ AppendBytes \/ PageNext

Spec == Init /\ [][Next]_vars

----------------------------------------------------------------------------
(* State machine of the PacketReader *)

InitPacket ==
    /\ input \in PacketStreams
    /\ fed = 0
    /\ data = <<>>
    /\ pages = <<>>
    /\ last = Idle
    /\ bytewise = FALSE
    /\ one_pc = "done"
    /\ one_data = <<>>
    /\ one_pages = <<>>
    /\ one_res = [kind |-> "", err |-> ""]
    /\ segments = <<>>
    /\ packets = <<>>
    /\ got = <<>>
    /\ out_pcm = <<>>
    /\ total_data = 0
    /\ pw_inner = <<>>
    /\ pw_seq = 0
    /\ header_data = <<>>
    /\ enc_last = EncIdle
    /\ pushed = 0
    /\ frames = <<>>
    /\ calls = 0
    /\ NoDecoder
    /\ NoAsync

\* PacketReader::append_bytes with the next n bytes of the input
PacketAppendBytes ==
    /\ \E n \in PacketChunkSizes(Len(input) - fed) :
        /\ data' = data \o SubSeq(input, fed + 1, fed + n)
        /\ fed' = fed + n
    /\ last' = [op |-> "append", kind |-> "", err |-> "", pre |-> <<>>,
                fail |-> last.fail]
    /\ UNCHANGED <<input, pages, pageVars, packetVars, encVars>>
    /\ UNCHANGED <<decVars, asyncVars>>

\* PacketReader::next
PacketNext ==
    /\ LET r == PacketReaderNext(data, segments, packets)
       IN  /\ data' = r.data
           /\ segments' = r.segments
           /\ packets' = r.packets
           /\ pages' = pages \o r.parsed
           /\ got' = IF r.kind = "packet" THEN Append(got, r.packet) ELSE got
           /\ last' = [op |-> "pnext", kind |-> r.kind, err |-> r.err, pre |-> data,
                       fail |-> FirstFail(last.fail, r, data, fed)]
    /\ UNCHANGED <<input, fed, pageVars, encVars>>
    /\ UNCHANGED <<decVars, asyncVars>>

NextPacket == PacketAppendBytes \/ PacketNext

SpecPacket == InitPacket /\ [][NextPacket]_vars

----------------------------------------------------------------------------
(* State machine of the Encoder *)

\* the lengths of the sample slices handed to encode_page
PcmLens == {0, 500, 960, 1500}

\* the state Encoder::new returns
InitEnc ==
    /\ input = <<>>
    /\ fed = 0
    /\ data = <<>>
    /\ pages = <<>>
    /\ last = Idle
    /\ bytewise = FALSE
    /\ one_pc = "done"
    /\ one_data = <<>>
    /\ one_pages = <<>>
    /\ one_res = [kind |-> "", err |-> ""]
    /\ segments = <<>>
    /\ packets = <<>>
    /\ got = <<>>
    /\ out_pcm = EncoderNew.out_pcm
    /\ total_data = EncoderNew.total_data
    /\ pw_inner = EncoderNew.pw_inner
    /\ pw_seq = EncoderNew.pw_seq
    /\ header_data = EncoderNew.header_data
    /\ enc_last = EncIdle
    /\ pushed = 0
    /\ frames = <<>>
    /\ calls = 0
    /\ NoDecoder
    /\ NoAsync

\* Encoder::header_data
HeaderData ==
    /\ enc_last' = [op |-> "header_data", kind |-> "ok", err |-> "",
                    bytes |-> header_data, before |-> pushed,
                    first |-> Len(frames) + 1]
    /\ UNCHANGED <<out_pcm, total_data, pw_inner, pw_seq, header_data,
                   pushed, frames, calls>>
    /\ UNCHANGED <<readerVars, pageVars, packetVars>>
    /\ UNCHANGED <<decVars, asyncVars>>

\* Encoder::encode_page(pcm): the samples are numbered in push order
EncodePage ==
    /\ calls < MaxCalls
    /\ \E n \in PcmLens :
        LET pcm == [i \in 1..n |-> pushed + i]
            nchunks == ChunkCount(Len(out_pcm) + n)
        IN  \E outs \in [1..nchunks -> CodecOutcomes] :
            \E r \in {EncodePageResult(out_pcm, total_data, pw_inner, pw_seq,
                                       pcm, outs)} :
                /\ out_pcm' = r.out_pcm
                /\ total_data' = r.total_data
                /\ pw_inner' = r.pw_inner
                /\ pw_seq' = r.pw_seq
                /\ enc_last' = [op |-> "encode_page", kind |-> r.kind,
                                err |-> r.err, bytes |-> r.bytes,
                                before |-> pushed, first |-> Len(frames) + 1]
                /\ pushed' = pushed + n
                /\ frames' = frames \o r.log
                /\ calls' = calls + 1
    /\ UNCHANGED header_data
    /\ UNCHANGED <<readerVars, pageVars, packetVars>>
    /\ UNCHANGED <<decVars, asyncVars>>

NextEnc == HeaderData \/ EncodePage

SpecEnc == InitEnc /\ [][NextEnc]_vars

----------------------------------------------------------------------------
(* The synchronous Decoder (src/src/ogg_opus.rs).  The Opus decoder is an   *)
(* external codec: what is modelled of it is the number of samples a packet *)
(* decodes to, a function of the packet, and its refusal to write past the  *)
(* end of the slice it is given.                                            *)

\* the longest stream prefix of audio frames with one call's worth of bound
MaxFrames == 3

\* the seconds of audio the buffer holds beyond the flush threshold
PcmMarginSeconds == 5

\* vec![0f32; flush_every_n_samples + sample_rate * 5]
PcmBufLen(rate, flush) == flush + rate * PcmMarginSeconds

\* packet.starts_with(magic)
StartsWith(packet, magic) ==
    Len(packet) >= Len(magic) /\ SubSeq(packet, 1, Len(magic)) = magic

\* a skip test that looks at the first four bytes ("Opus") only
IsHeaderPacketLoose(packet) == StartsWith(packet, SubSeq(OpusHeadMagic, 1, 4))

\* packet.starts_with(b"OpusHead") || packet.starts_with(b"OpusTags")
IsHeaderPacket(packet) ==
    StartsWith(packet, OpusHeadMagic) \/ StartsWith(packet, OpusTagsMagic)

\* the samples per channel the codec finds in a packet: the frame count and
\* duration are read from its first byte; the packets of this repository's
\* encoder (one frame of 960 samples) decode to 960 at the encoder's rate
FrameSamples(packet) ==
    CASE packet[1] % 4 = 0 -> 960
      [] packet[1] % 4 = 1 -> 480
      [] packet[1] % 4 = 2 -> 240
      [] OTHER -> 120

\* opus::Decoder::decode_float(packet, out, false) with out of length room:
\* the sample count, or an error when the packet is empty or its samples do
\* not fit into out
DecodeFloat(packet, room) ==
    IF packet = <<>> THEN [ok |-> FALSE, n |-> 0, err |-> "Opus"]
    ELSE IF FrameSamples(packet) > room
    THEN [ok |-> FALSE, n |-> 0, err |-> "OpusBufferTooSmall"]
    ELSE [ok |-> TRUE, n |-> FrameSamples(packet), err |-> ""]

\* a threshold test that wants the offset strictly above the threshold
FlushDueStrict(off, flush) == off > flush

\* self.size_in_buf >= self.flush_every_n_samples
FlushDue(off, flush) == off >= flush

\* one pass of `while let Some(packet) = self.pr_ogg.next()?` of decode on
\* the loop state st: the reader state, the write offset, the pages and
\* packets gone through; st.kind is "packet" while the loop runs and else
\* tells how it ended (None or an error)
DecodeStep(st, cap) ==
    Only({
    LET seen == [st.log EXCEPT
                    !.parsed = @ \o r.parsed,
                    !.got = IF r.kind = "packet" THEN Append(@, r.packet) ELSE @]
        left == [ kind |-> r.kind, err |-> r.err, data |-> r.data,
                  segments |-> r.segments, packets |-> r.packets,
                  off |-> st.off, log |-> seen ]
    IN  IF r.kind # "packet" THEN left
        ELSE IF IsHeaderPacket(r.packet) THEN left
        ELSE
        LET c == DecodeFloat(r.packet, cap - st.off)
        IN  IF ~c.ok
            THEN [left EXCEPT !.kind = "err", !.err = c.err]
            ELSE [left EXCEPT !.off = @ + c.n,
                              !.log.decoded = Append(@, r.packet)]
    : r \in {PacketReaderNext(st.data, st.segments, st.packets)} })

\* up to n passes of the loop, stopping at the pass that ends it; the passes
\* are split in halves so that long backlogs are evaluated at small depth
RECURSIVE DecodeLoop(_, _, _)
DecodeLoop(n, st, cap) ==
    IF n <= 1 THEN DecodeStep(st, cap)
    ELSE Only({ IF half.kind # "packet" THEN half
                ELSE DecodeLoop(n - n \div 2, half, cap)
                : half \in {DecodeLoop(n \div 2, st, cap)} })

\* the whole loop; every packet returned takes a lacing value off the queue
\* or the backlog, which bounds the passes
DecodePackets(d, acc, queue, off, cap, log) ==
    DecodeLoop(Len(d) + Len(queue) + 1,
               [ kind |-> "packet", err |-> "", data |-> d, segments |-> acc,
                 packets |-> queue, off |-> off, log |-> log ],
               cap)

\* Decoder::decode(chunk) on the state (d, acc, queue, off): what it returns
\* and the state it leaves
DecodeResult(d, acc, queue, off, cap, flush, chunk) ==
    Only({
        IF r.kind # "none"
        THEN [ kind |-> r.kind, err |-> r.err, len |-> 0, data |-> r.data,
               segments |-> r.segments, packets |-> r.packets,
               size_in_buf |-> r.off, log |-> r.log ]
        ELSE IF FlushDue(r.off, flush)
        THEN [ kind |-> "some", err |-> "", len |-> r.off, data |-> r.data,
               segments |-> r.segments, packets |-> r.packets,
               size_in_buf |-> 0, log |-> r.log ]
        ELSE [ kind |-> "none", err |-> "", len |-> 0, data |-> r.data,
               segments |-> r.segments, packets |-> r.packets,
               size_in_buf |-> r.off, log |-> r.log ]
    : r \in { DecodePackets(d \o chunk, acc, queue, off, cap,
                             [parsed |-> <<>>, got |-> <<>>, decoded |-> <<>>]) } })

\* a page holding the given packets, each shorter than 255 bytes
PageOfPackets(pkts) ==
    OggS \o <<0, 0>> \o [i \in 1..8 |-> 0] \o LittleEndian(StreamSerial, 4)
    \o [i \in 1..8 |-> 0] \o <<Len(pkts)>> \o Lengths(pkts) \o Flatten(pkts)

\* the bytes an Encoder gives for k frames of samples: header_data, then
\* the result of encode_page with a codec that returns 3 bytes per frame
EncStream(k) ==
    EncoderNew.header_data
    \o EncodePageResult(EncoderNew.out_pcm, EncoderNew.total_data,
                        EncoderNew.pw_inner, EncoderNew.pw_seq,
                        [i \in 1..(OPUS_ENCODER_FRAME_SIZE * k) |-> i],
                        [i \in 1..k |-> 3]).bytes

\* the rates Decoder::new is given
SampleRates == {8000}

\* the thresholds Decoder::new is given
FlushValues == {960, 1440}

\* the least number of 960-sample packets that no buffer of the model holds
OverflowFrames ==
    PcmBufLen(8000, 1440) \div OPUS_ENCODER_FRAME_SIZE + 1

\* streams made by the Encoder: a few frames
EncoderStreams == {EncStream(k) : k \in 1..MaxFrames}

\* streams made by the Encoder, of about 5 seconds: from the most frames
\* every buffer of the model holds at once to one frame too many for any
LongStreams == {EncStream(OverflowFrames - k) : k \in 0..3}

\* pages for the decoder: the two header pages, an audio page of the
\* encoder's kind, a page of two shorter packets, a page whose packet starts
\* with "OpusTag" but not "OpusTags", and a page with a bad magic
DecoderBlobs ==
    { EncoderNew.header_data,
      WritePage(<<8, 1, 2>>, 960, 2),
      PageOfPackets(<< <<1, 5>>, <<2>> >>),
      PageOfPackets(<< SubSeq(OpusTagsMagic, 1, 7) \o <<3>> >>),
      Blob(<<79, 103, 103, 84>>, 0, <<1>>, 50) }

DecoderStreams == StreamsOf(DecoderBlobs, MaxPages) \cup EncoderStreams

\* the sizes of the slices handed to decode
DecodeChunkSizes(rest) == {n \in {1, HdrSize, rest} : 1 <= n /\ n <= rest}

\* the sizes of the slices handed to decode when a long stream is read
SliceSizes(rest) == {n \in {256, 1024, rest} : 1 <= n /\ n <= rest}

\* the state Decoder::new(rate, flush) returns, and the stream to decode
DecoderNew(streams) ==
    /\ input \in streams
    /\ fed = 0
    /\ data = <<>>
    /\ pages = <<>>
    /\ last = Idle
    /\ bytewise = FALSE
    /\ one_pc = "done"
    /\ one_data = <<>>
    /\ one_pages = <<>>
    /\ one_res = [kind |-> "", err |-> ""]
    /\ segments = <<>>
    /\ packets = <<>>
    /\ got = <<>>
    /\ out_pcm = <<>>
    /\ total_data = 0
    /\ pw_inner = <<>>
    /\ pw_seq = 0
    /\ header_data = <<>>
    /\ enc_last = EncIdle
    /\ pushed = 0
    /\ frames = <<>>
    /\ calls = 0
    /\ sample_rate \in SampleRates
    /\ flush_every_n_samples \in FlushValues
    /\ pcm_len = PcmBufLen(sample_rate, flush_every_n_samples)
    /\ size_in_buf = 0
    /\ dec_last = DecIdle
    /\ returned = <<>>
    /\ decoded = <<>>
    /\ NoAsync

InitDec == DecoderNew(DecoderStreams)

InitDecLong == DecoderNew(LongStreams)

\* Decoder::decode with the next n bytes of the input
DecodeChunk(n) ==
    \E r \in {DecodeResult(data, segments, packets, size_in_buf, pcm_len,
                           flush_every_n_samples,
                           SubSeq(input, fed + 1, fed + n))} :
        /\ fed' = fed + n
        /\ data' = r.data
        /\ segments' = r.segments
        /\ packets' = r.packets
        /\ size_in_buf' = r.size_in_buf
        /\ pages' = pages \o r.log.parsed
        /\ got' = got \o r.log.got
        /\ decoded' = decoded \o r.log.decoded
        /\ returned' = IF r.kind = "some" THEN Append(returned, r.len)
                       ELSE returned
        /\ dec_last' = [op |-> "decode", kind |-> r.kind, err |-> r.err,
                        len |-> r.len, before |-> size_in_buf,
                        first |-> Len(decoded) + 1,
                        first_got |-> Len(got) + 1,
                        single |-> (dec_last.single
                                    /\ Len(r.log.decoded) <= 1)]
        /\ UNCHANGED <<input, last, sample_rate, flush_every_n_samples, pcm_len>>
        /\ UNCHANGED <<pageVars, encVars, asyncVars>>

\* Decoder::decode on a short stream
Decode == \E n \in DecodeChunkSizes(Len(input) - fed) : DecodeChunk(n)

\* Decoder::decode on a long stream
DecodeSlice == \E n \in SliceSizes(Len(input) - fed) : DecodeChunk(n)

NextDec == Decode

NextDecLong == DecodeSlice

SpecDecLong == InitDecLong /\ [][NextDecLong]_vars

SpecDec == InitDec /\ [][NextDec]_vars

----------------------------------------------------------------------------
(* The AsyncDecoder (src/src/ogg_opus.rs): what read() does with one packet *)

\* packet.data.starts_with(b"OpusHead") || packet.data.starts_with(b"OpusTags")
ReadSkips(packet) ==
    StartsWith(packet, OpusHeadMagic) \/ StartsWith(packet, OpusTagsMagic)

\* a threshold test of read that wants the offset strictly above the threshold
ReadFlushDueStrict(off, flush) == off > flush

\* self.size_in_buf >= self.flush_every_n_samples, in read
ReadFlushDue(off, flush) == off >= flush

\* one pass of the loop of read() with the packet the reader yielded: the
\* pass continues the loop ("skip", "more"), returns a slice ("some") or
\* returns the codec's error ("err")
ReadOnPacket(off, cap, flush, packet) ==
    IF ReadSkips(packet)
    THEN [kind |-> "skip", err |-> "", off |-> off, len |-> 0]
    ELSE
    LET c == DecodeFloat(packet, cap - off)
    IN  IF ~c.ok THEN [kind |-> "err", err |-> c.err, off |-> off, len |-> 0]
        ELSE IF ReadFlushDue(off + c.n, flush)
        THEN [kind |-> "some", err |-> "", off |-> 0, len |-> off + c.n]
        ELSE [kind |-> "more", err |-> "", off |-> off + c.n, len |-> 0]

\* successive read() calls on a reader that yields the packets pkts: the
\* lengths of the slices returned and the offset left when the packets run
\* out
RECURSIVE ReadRun(_, _, _, _, _)
ReadRun(pkts, off, cap, flush, out) ==
    IF pkts = <<>> THEN [returned |-> out, off |-> off]
    ELSE LET r == ReadOnPacket(off, cap, flush, Head(pkts))
         IN  ReadRun(Tail(pkts), r.off, cap, flush,
                     IF r.kind = "some" THEN Append(out, r.len) ELSE out)

----------------------------------------------------------------------------
(* State machine of the AsyncDecoder: the producer's Sender, the unbounded   *)
(* channel, the spawned task that copies chunks into the duplex stream, and  *)
(* read() awaiting the packet reader at the other end.  The packet reader is *)
(* the ogg crate's: it is modelled by the lacing rules of PacketReaderNext,  *)
(* and read() is a sequence of steps, one per poll that makes progress.      *)

\* tokio::io::duplex(100_000): the bytes the stream buffers
DuplexCap == 100000

\* a receiver that hands out the newest chunk first
RecvNewest(queue) ==
    [chunk |-> queue[Len(queue)], rest |-> SubSeq(queue, 1, Len(queue) - 1)]

\* rx_sync.recv() on a non-empty channel: the oldest chunk
Recv(queue) == [chunk |-> Head(queue), rest |-> Tail(queue)]

\* a channel that reports the end as soon as the Sender is dropped
ChannelEndedOnDrop(open, queue) == ~open

\* rx_sync.recv() returns None: every Sender is dropped and no chunk is queued
ChannelEnded(open, queue) == ~open /\ queue = <<>>

\* the sizes of the chunks the producer sends
SendSizes(rest) == {n \in {64, rest} : 1 <= n /\ n <= rest}

ReadIdle == [op |-> "new", kind |-> "", err |-> "", len |-> 0, before |-> 0,
             ends |-> 0, left |-> 0]

\* the state AsyncDecoder::new(rate, flush) returns, with the task spawned
InitAsync ==
    /\ input \in EncoderStreams
    /\ fed = 0
    /\ data = <<>>
    /\ pages = <<>>
    /\ last = Idle
    /\ bytewise = FALSE
    /\ one_pc = "done"
    /\ one_data = <<>>
    /\ one_pages = <<>>
    /\ one_res = [kind |-> "", err |-> ""]
    /\ segments = <<>>
    /\ packets = <<>>
    /\ got = <<>>
    /\ out_pcm = <<>>
    /\ total_data = 0
    /\ pw_inner = <<>>
    /\ pw_seq = 0
    /\ header_data = <<>>
    /\ enc_last = EncIdle
    /\ pushed = 0
    /\ frames = <<>>
    /\ calls = 0
    /\ sample_rate \in SampleRates
    /\ flush_every_n_samples \in FlushValues
    /\ pcm_len = PcmBufLen(sample_rate, flush_every_n_samples)
    /\ size_in_buf = 0
    /\ dec_last = ReadIdle
    /\ returned = <<>>
    /\ decoded = <<>>
    /\ chan = <<>>
    /\ tx = [open |-> TRUE, left |-> 0]
    /\ relay = [pc |-> "recv", cur |-> <<>>]
    /\ pipe = <<>>
    /\ rd_pc = "idle"
    /\ arrived = <<>>

\* what no step of the AsyncDecoder touches
AsyncFixed ==
    /\ UNCHANGED <<input, pages, last, sample_rate, flush_every_n_samples,
                   pcm_len>>
    /\ UNCHANGED <<pageVars, encVars>>

\* the producer: tx.send(chunk) with the next n bytes of the stream
Send ==
    /\ tx.open
    /\ \E n \in SendSizes(Len(input) - fed) :
        /\ chan' = Append(chan, SubSeq(input, fed + 1, fed + n))
        /\ fed' = fed + n
    /\ UNCHANGED <<tx, relay, pipe, rd_pc, arrived, data, segments, packets,
                   got, size_in_buf, dec_last, returned, decoded>>
    /\ AsyncFixed

\* the producer drops its Sender
Close ==
    /\ tx.open
    /\ tx' = [open |-> FALSE, left |-> Len(chan)]
    /\ UNCHANGED <<chan, fed, relay, pipe, rd_pc, arrived, data, segments,
                   packets, got, size_in_buf, dec_last, returned, decoded>>
    /\ AsyncFixed

\* the task: rx_sync.recv().await yields a chunk
RelayRecv ==
    /\ relay.pc = "recv"
    /\ chan # <<>>
    /\ LET r == Recv(chan)
       IN  /\ chan' = r.rest
           /\ relay' = [pc |-> IF r.chunk = <<>> THEN "recv" ELSE "write",
                        cur |-> r.chunk]
    /\ UNCHANGED <<tx, fed, pipe, rd_pc, arrived, data, segments, packets,
                   got, size_in_buf, dec_last, returned, decoded>>
    /\ AsyncFixed

\* the task: tx_tokio.write_all(&data).await copies what the stream has room
\* for and goes on when the chunk is written
RelayWrite ==
    /\ relay.pc = "write"
    /\ Len(pipe) < DuplexCap
    /\ LET room == DuplexCap - Len(pipe)
           n == IF Len(relay.cur) <= room THEN Len(relay.cur) ELSE room
       IN  /\ pipe' = pipe \o Take(relay.cur, n)
           /\ relay' = [pc |-> IF n = Len(relay.cur) THEN "recv" ELSE "write",
                        cur |-> Drop(relay.cur, n)]
    /\ UNCHANGED <<chan, tx, fed, rd_pc, arrived, data, segments, packets,
                   got, size_in_buf, dec_last, returned, decoded>>
    /\ AsyncFixed

\* the task: recv() yields None, the loop ends and tx_tokio is dropped
RelayEnd ==
    /\ relay.pc = "recv"
    /\ ChannelEnded(tx.open, chan)
    /\ relay' = [pc |-> "done", cur |-> <<>>]
    /\ UNCHANGED <<chan, tx, fed, pipe, rd_pc, arrived, data, segments,
                   packets, got, size_in_buf, dec_last, returned, decoded>>
    /\ AsyncFixed

\* the caller calls read()
ReadStart ==
    /\ rd_pc = "idle"
    /\ rd_pc' = "wait"
    /\ dec_last' = [dec_last EXCEPT !.op = "reading", !.kind = "", !.err = "",
                                    !.len = 0, !.before = size_in_buf]
    /\ UNCHANGED <<chan, tx, fed, relay, pipe, arrived, data, segments,
                   packets, got, size_in_buf, returned, decoded>>
    /\ AsyncFixed

\* read() awaiting pr_ogg.next(): the reader has no packet ready and takes
\* the bytes the stream holds
ReaderFill ==
    /\ rd_pc = "wait"
    /\ PacketReaderNext(data, segments, packets).kind = "none"
    /\ pipe # <<>>
    /\ data' = data \o pipe
    /\ arrived' = arrived \o pipe
    /\ pipe' = <<>>
    /\ UNCHANGED <<chan, tx, fed, relay, rd_pc, segments, packets, got,
                   size_in_buf, dec_last, returned, decoded>>
    /\ AsyncFixed

\* read(): pr_ogg.next() yields a packet (or the reader's error) and the
\* loop body runs on it
ReadPacket ==
    /\ rd_pc = "wait"
    /\ \E r \in {PacketReaderNext(data, segments, packets)} :
       \E o \in {ReadOnPacket(size_in_buf, pcm_len, flush_every_n_samples,
                              r.packet)} :
       \E k \in {IF r.kind = "err" THEN "err" ELSE o.kind} :
           /\ r.kind \in {"packet", "err"}
           /\ data' = r.data
           /\ segments' = r.segments
           /\ packets' = r.packets
           /\ got' = IF r.kind = "packet" THEN Append(got, r.packet) ELSE got
           /\ size_in_buf' = IF r.kind = "packet" THEN o.off ELSE size_in_buf
           /\ decoded' = IF r.kind = "packet" /\ o.kind \in {"more", "some"}
                         THEN Append(decoded, r.packet) ELSE decoded
           /\ returned' = IF k = "some" THEN Append(returned, o.len)
                          ELSE returned
           /\ rd_pc' = IF k \in {"some", "err"} THEN "idle" ELSE "wait"
           /\ dec_last' = IF k \in {"some", "err"}
                          THEN [dec_last EXCEPT
                                    !.op = "read", !.kind = k,
                                    !.err = IF r.kind = "err" THEN r.err ELSE o.err,
                                    !.len = IF k = "some" THEN o.len ELSE 0]
                          ELSE dec_last
    /\ UNCHANGED <<chan, tx, fed, relay, pipe, arrived>>
    /\ AsyncFixed

\* read(): the task has ended and the stream is drained, pr_ogg.next()
\* yields None and read() returns Ok(None); a reader left with part of a
\* page may report it as an error first
ReadEof ==
    /\ rd_pc = "wait"
    /\ PacketReaderNext(data, segments, packets).kind = "none"
    /\ pipe = <<>>
    /\ relay.pc = "done"
    /\ \E k \in IF data # <<>> \/ segments # <<>> THEN {"err", "end"} ELSE {"end"} :
        dec_last' = [dec_last EXCEPT
                        !.op = "read", !.kind = k,
                        !.err = IF k = "err" THEN "eof" ELSE "",
                        !.ends = IF k = "end" /\ @ < 2 THEN @ + 1 ELSE @,
                        !.left = IF k = "end" /\ dec_last.ends = 0
                                 THEN size_in_buf ELSE @]
    /\ data' = <<>>
    /\ segments' = <<>>
    /\ rd_pc' = "idle"
    /\ UNCHANGED <<chan, tx, fed, relay, pipe, arrived, packets, got,
                   size_in_buf, returned, decoded>>
    /\ AsyncFixed

NextAsync ==
    \/ Send \/ Close
    \/ RelayRecv \/ RelayWrite \/ RelayEnd
    \/ ReadStart \/ ReaderFill \/ ReadPacket \/ ReadEof

SpecAsync == InitAsync /\ [][NextAsync]_vars

\* the runtime keeps polling the spawned task and the awaited read(), and
\* the caller keeps calling read(); nothing is assumed of the producer
SpecAsyncFair ==
    /\ InitAsync /\ [][NextAsync]_vars
    /\ WF_vars(RelayRecv) /\ WF_vars(RelayWrite) /\ WF_vars(RelayEnd)
    /\ WF_vars(ReadStart) /\ WF_vars(ReaderFill) /\ WF_vars(ReadPacket)
    /\ WF_vars(ReadEof)

----------------------------------------------------------------------------
(* Claims about the PageReader *)

\* the incremental reader has reached the end of its run: an error, an abort,
\* or None with the whole input appended
Terminal ==
    /\ last.op = "next"
    /\ \/ last.kind \in {"err", "panic"}
       \/ last.kind = "none" /\ fed = Len(input)

\* C1: feeding the input one byte at a time, calling next() until None after
\* each append, returns the same pages in the same order, and ends in the
\* same error if any, as appending the whole input at once and calling
\* next() until None or an error.
C1_IncrementalFeedEquivalence ==
    (bytewise /\ Terminal) =>
        /\ pages = one_pages
        /\ last.kind = one_res.kind
        /\ last.err = one_res.err

C1_Witness ==
    /\ bytewise /\ Terminal
    /\ Len(input) > 2 * HdrSize
    /\ Len(pages) = 2
    /\ pages[2].segments = <<<<>>, Fill(1, 6)>>
    /\ pages = one_pages

\* C2: no byte is lost or duplicated: the serialised pages returned so far
\* followed by the backlog are the bytes appended so far, and a next() that
\* returns a page removes exactly that page's bytes from the head of the
\* backlog.
C2_BytesConserved ==
    /\ PagesBytes(pages) \o data = SubSeq(input, 1, fed)
    /\ (last.op = "next" /\ last.kind = "page") =>
          LET b == PageBytes(pages[Len(pages)])
          IN  /\ Len(b) <= Len(last.pre)
              /\ SubSeq(last.pre, 1, Len(b)) = b
              /\ data = SubSeq(last.pre, Len(b) + 1, Len(last.pre))
    /\ (last.op = "next" /\ last.kind # "page") => data = last.pre

C2_Witness ==
    /\ last.op = "next" /\ last.kind = "page"
    /\ Len(pages) = 1
    /\ Len(data) > 0
    /\ Len(pages[1].segments) = 1

\* the total size the head of backlog d declares, as far as d shows it
DeclaredSize(d) ==
    IF Len(d) < 27 THEN 27
    ELSE IF Len(d) < 27 + d[27] THEN 27 + d[27]
    ELSE 27 + d[27] + Sum(SubSeq(d, 28, 27 + d[27]))

WellFormedHead(d) ==
    Len(d) >= 27 => (SubSeq(d, 1, 4) = <<79, 103, 103, 83>> /\ d[5] = 0)

\* C3: when the backlog is shorter than the size the page at its head
\* declares, next() returns None and leaves the backlog as it was (so the
\* next call sees the same backlog and returns None again); it never returns
\* a page whose bytes were not all buffered.
C3_IncompletePageIsNone ==
    (last.op = "next" /\ Len(last.pre) < DeclaredSize(last.pre)) =>
        /\ last.kind # "page"
        /\ data = last.pre
        /\ WellFormedHead(last.pre) =>
              (last.kind = "none" /\ PageReaderNext(data).kind = "none")

C3_Witness ==
    /\ last.op = "next" /\ last.kind = "none"
    /\ Len(last.pre) >= 28
    /\ Len(last.pre) < DeclaredSize(last.pre)
    /\ Len(pages) = 1

\* C4 as stated: a backlog of 4 bytes or more that does not start with
\* "OggS" makes next() fail with the capture-pattern error.
C4_BadMagicAnyLength ==
    (last.op = "next" /\ Len(last.pre) >= 4
       /\ SubSeq(last.pre, 1, 4) # <<79, 103, 103, 83>>) =>
        (last.kind = "err" /\ last.err = "capture_pattern")

\* C4 (amended): a backlog of a full header (27 bytes) or more that does not
\* start with "OggS" makes next() fail with the capture-pattern error and
\* keeps the bad bytes at the head of the backlog; with fewer than 27 bytes
\* buffered next() returns None whatever the bytes are.
C4_BadMagicFullHeader ==
    /\ (last.op = "next" /\ Len(last.pre) >= 27
          /\ SubSeq(last.pre, 1, 4) # <<79, 103, 103, 83>>) =>
            (last.kind = "err" /\ last.err = "capture_pattern" /\ data = last.pre)
    /\ (last.op = "next" /\ Len(last.pre) < 27) =>
            (last.kind = "none" /\ data = last.pre)

C4_Witness ==
    /\ last.op = "next" /\ last.kind = "err" /\ last.err = "capture_pattern"
    /\ Len(last.pre) >= 27
    /\ SubSeq(last.pre, 1, 4) = <<79, 103, 103, 84>>
    /\ pages = <<>>

C4_WitnessShort ==
    /\ last.op = "next" /\ last.kind = "none"
    /\ Len(last.pre) \in 4..26
    /\ SubSeq(last.pre, 1, 4) = <<79, 103, 103, 84>>

----------------------------------------------------------------------------
(* Claims about the PacketReader *)

\* every segment of every page parsed so far, in stream order
AllSegments == Flatten([i \in 1..Len(pages) |-> pages[i].segments])

\* the lacing rule, read off the whole segment sequence: a packet ends at
\* every segment shorter than 255
Enders(segs) == {i \in 1..Len(segs) : Len(segs[i]) < 255}

Least(S) == CHOOSE x \in S : \A y \in S : x <= y

RECURSIVE CutFrom(_, _)
CutFrom(segs, start) ==
    LET ahead == {i \in Enders(segs) : i >= start}
    IN  IF ahead = {} THEN <<>>
        ELSE <<Flatten(SubSeq(segs, start, Least(ahead)))>>
             \o CutFrom(segs, Least(ahead) + 1)

\* the segments after the last terminator: the packet still open
OpenRun(segs) ==
    LET e == Enders(segs)
        from == IF e = {} THEN 1 ELSE (CHOOSE x \in e : \A y \in e : y <= x) + 1
    IN  SubSeq(segs, from, Len(segs))

IsPrefix(a, b) == Len(a) <= Len(b) /\ SubSeq(b, 1, Len(a)) = a

\* C5: a packet of length L (0, a multiple of 255, or any other length)
\* written by the writer as one page and fed to the PacketReader comes back
\* as exactly one packet with the same bytes, followed by None.
C5_LacingRoundTrip ==
    \A len \in PacketLens :
        input = WritePage(Payload(len), 960, 2) =>
            /\ IsPrefix(got \o packets, <<Payload(len)>>)
            /\ (fed = Len(input) /\ last.op = "pnext" /\ last.kind = "none") =>
                  (got = <<Payload(len)>> /\ segments = <<>> /\ data = <<>>)
            /\ last.kind \in {"", "none", "packet"}

C5_Witness ==
    /\ input = WritePage(Payload(510), 960, 2)
    /\ fed = Len(input)
    /\ last.op = "pnext" /\ last.kind = "none"
    /\ got = <<Payload(510)>>
    /\ Len(got[1]) = 510

C5_WitnessEmpty ==
    /\ input = WritePage(<<>>, 960, 2)
    /\ last.op = "pnext" /\ last.kind = "none"
    /\ got = <<<<>>>>

\* C6: the packets returned, followed by those still queued, are the
\* segments of all parsed pages cut after every segment shorter than 255,
\* in stream order and across page boundaries; the segments after the last
\* terminator stay in the accumulator and are not emitted; when next()
\* returns None every parsable page has been parsed and every completed
\* packet has been returned.
C6_LacingAcrossPages ==
    /\ got \o packets = CutFrom(AllSegments, 1)
    /\ segments = OpenRun(AllSegments)
    /\ PagesBytes(pages) \o data = SubSeq(input, 1, fed)
    /\ (last.op = "pnext" /\ last.kind = "none") =>
          (packets = <<>> /\ PageReaderNext(data).kind = "none")
    /\ (last.op = "pnext" /\ last.kind = "packet") =>
          (got # <<>> /\ IsPrefix(got, CutFrom(AllSegments, 1)))

\* page 1 ends with a 255 segment, page 2 begins with a 3-byte segment
C6_Witness ==
    /\ Len(pages) = 2
    /\ Lengths(pages[1].segments) = <<255>>
    /\ Lengths(pages[2].segments) = <<3>>
    /\ got = <<Fill(255, 13) \o Fill(3, 23)>>
    /\ last.op = "pnext" /\ last.kind = "none"

\* an unterminated run of 255 segments is held back
C6_WitnessOpen ==
    /\ Len(pages) = 2
    /\ Lengths(pages[1].segments) = <<2, 0, 255>>
    /\ Lengths(pages[2].segments) = <<255>>
    /\ Len(got) = 2
    /\ Len(segments) = 2
    /\ last.op = "pnext" /\ last.kind = "none"

\* C7: next() returns the oldest queued packet whenever one is queued: a
\* call that returns None or an error leaves no completed packet queued.
C7_QueuedPacketIsReturned ==
    (last.op = "pnext" /\ last.kind # "packet") => packets = <<>>

----------------------------------------------------------------------------
(* Claims about the Encoder *)

\* the frames for which a page was written, all calls together
Produced == SelectSeq(frames, LAMBDA f : f.size > 0)

\* the frames drained by the last call, and those of them that gave a page
CallFrames == SubSeq(frames, enc_last.first, Len(frames))
CallProduced == SelectSeq(CallFrames, LAMBDA f : f.size > 0)

\* the pages found in the bytes the last call returned
ReturnedPages == DrainPages(enc_last.bytes, <<>>, <<>>, <<>>).parsed

EncodeOk == enc_last.op = "encode_page" /\ enc_last.kind = "ok"

\* C8 as stated: the first produced page carries 960 and every produced page
\* carries 960 more than the produced page before it, whatever the codec
\* returned for the frames.
C8_GranuleStepIsOneFrame ==
    \A i \in 1..Len(Produced) : Produced[i].gp = 960 * i

\* C8 (amended): the granule position counts drained frames, not produced
\* pages: the page written for the i-th drained frame carries 960 * i, so
\* the positions of produced pages strictly increase by 960 times one plus
\* the number of frames in between for which no page was written (size 0 or
\* a codec failure); the step is exactly 960, and the first page carries
\* 960, when no such frame precedes.  The pages in the bytes a call returns
\* carry these positions, little-endian.
C8_GranuleCountsDrainedFrames ==
    /\ total_data = 960 * Len(frames)
    /\ \A i \in 1..Len(frames) : frames[i].gp = 960 * i
    /\ \A i \in 1..Len(Produced) :
          /\ Produced[i].gp >= 960 * i
          /\ i > 1 => Produced[i].gp > Produced[i - 1].gp
    /\ (\A i \in 1..Len(frames) : frames[i].size > 0) =>
          (\A i \in 1..Len(Produced) : Produced[i].gp = 960 * i)
    /\ EncodeOk =>
          /\ Len(ReturnedPages) = Len(CallProduced)
          /\ \A i \in 1..Len(CallProduced) :
                ReturnedPages[i].header.granule_position
                    = LittleEndian(CallProduced[i].gp, 8)

\* a frame of size 0, then a page: the page carries 1920
C8_Witness ==
    /\ EncodeOk
    /\ Len(frames) = 2
    /\ frames[1].size = 0 /\ frames[2].size = 3
    /\ Len(ReturnedPages) = 1
    /\ ReturnedPages[1].header.granule_position = <<128, 7, 0, 0, 0, 0, 0, 0>>

\* C9 as stated: header_data() before any encode_page call returns a
\* non-empty byte string that starts with "OpusHead".
C9_StartsWithOpusHead ==
    (enc_last.op = "header_data" /\ calls = 0) =>
        /\ enc_last.bytes # <<>>
        /\ SubSeq(enc_last.bytes, 1, 8) = <<79, 112, 117, 115, 72, 101, 97, 100>>

\* C9 (amended): header_data() returns, before and after any encode_page
\* call, the same non-empty byte string: two Ogg pages, so its first bytes
\* are "OggS"; the only packet of the first page is the 19-byte
\* identification header that starts with "OpusHead" (at byte offset 28 of
\* header_data), the only packet of the second starts with "OpusTags".
C9_HeaderDataIsTwoPages ==
    /\ header_data # <<>>
    /\ SubSeq(header_data, 1, 4) = <<79, 103, 103, 83>>
    /\ SubSeq(header_data, 29, 36) = <<79, 112, 117, 115, 72, 101, 97, 100>>
    /\ LET r == DrainPages(header_data, <<>>, <<>>, <<>>)
       IN  /\ r.kind = "none" /\ r.data = <<>> /\ r.segments = <<>>
           /\ Len(r.parsed) = 2
           /\ Len(r.packets) = 2
           /\ Len(r.packets[1]) = 19
           /\ SubSeq(r.packets[1], 1, 8) = <<79, 112, 117, 115, 72, 101, 97, 100>>
           /\ SubSeq(r.packets[2], 1, 8) = <<79, 112, 117, 115, 84, 97, 103, 115>>
    /\ enc_last.op = "header_data" => enc_last.bytes = header_data

C9_Witness ==
    /\ enc_last.op = "header_data" /\ calls = 0
    /\ SubSeq(enc_last.bytes, 1, 4) = <<79, 103, 103, 83>>
    /\ SubSeq(enc_last.bytes, 29, 36) = <<79, 112, 117, 115, 72, 101, 97, 100>>

\* what C10 says of the samples, common to the claim and its amendment
SamplesConserved ==
    /\ total_data + Len(out_pcm) = pushed
    /\ out_pcm = [i \in 1..Len(out_pcm) |-> total_data + i]
    /\ total_data % 960 = 0
    /\ EncodeOk => Len(out_pcm) < 960
    /\ (EncodeOk /\ pushed < 960) => enc_last.bytes = <<>>

\* C10 as stated: samples are conserved, and a successful call that takes
\* the pushed count from below one frame to one frame or more returns
\* non-empty bytes.
C10_CrossingReturnsBytes ==
    /\ SamplesConserved
    /\ (EncodeOk /\ enc_last.before < 960 /\ pushed >= 960) =>
          enc_last.bytes # <<>>

\* C10 (amended): samples counted in total_data plus samples queued are the
\* samples pushed, in push order; total_data is a multiple of 960; after a
\* successful call fewer than 960 samples are queued; a successful call
\* that leaves the pushed count below 960 returns empty bytes; a successful
\* call that crosses the frame boundary drains at least one frame, and it
\* returns non-empty bytes exactly when the codec returned a nonzero size
\* for at least one frame it drained.
C10_SampleConservation ==
    /\ SamplesConserved
    /\ (EncodeOk /\ enc_last.before < 960 /\ pushed >= 960) =>
          CallFrames # <<>>
    /\ EncodeOk => (enc_last.bytes # <<>> <=> CallProduced # <<>>)

\* 500 samples, empty bytes; then 500 more, one page and 40 samples queued
C10_Witness ==
    /\ EncodeOk
    /\ enc_last.before = 500 /\ pushed = 1000
    /\ calls = 2
    /\ total_data = 960 /\ Len(out_pcm) = 40
    /\ enc_last.bytes # <<>>

\* the same two calls with a codec that returns size 0: empty bytes
C10_WitnessEmpty ==
    /\ EncodeOk
    /\ enc_last.before = 500 /\ pushed = 1000
    /\ total_data = 960
    /\ enc_last.bytes = <<>>

----------------------------------------------------------------------------
(* Claims about the Encoder's failures *)

\* C16: no encode_page call, whatever the lengths pushed and whatever the
\* codec did in earlier calls (a failure included), ends with
\* OpusMissingPcm: every frame a call starts is popped whole, so the frames
\* of a call are exactly the whole frames that were queued when it began,
\* or the first of them up to the one the codec failed on.
C16_MissingPcmUnreachable ==
    /\ enc_last.err # "OpusMissingPcm"
    /\ enc_last.op = "encode_page" =>
          LET queued == pushed - 960 * (enc_last.first - 1)
          IN  /\ Len(CallFrames) <= queued \div 960
              /\ enc_last.kind = "ok" => Len(CallFrames) = queued \div 960
              /\ Len(out_pcm) = queued - 960 * Len(CallFrames)

\* a call that follows a codec failure and drains two frames, the one the
\* failed call left queued among them
C16_Witness ==
    /\ EncodeOk
    /\ enc_last.first > 1
    /\ frames[enc_last.first - 1].size < 0
    /\ enc_last.before - 960 * (enc_last.first - 1) >= 960
    /\ Len(CallFrames) = 2

\* C19: when the codec fails on the k-th frame a call drains, the call
\* returns the error and no bytes, the writer's buffer is empty (the pages
\* of the k-1 earlier frames left it), total_data has advanced by k frames
\* and the k frames have left the queue; a later successful call returns
\* the pages of its own frames only, numbered after the lost ones.
C19_CodecFailureLosesPages ==
    /\ pw_inner = <<>>
    /\ pw_seq = 2 + Len(Produced)
    /\ (enc_last.op = "encode_page" /\ enc_last.err = "Opus") =>
          LET k == Len(CallFrames)
              queued == pushed - 960 * (enc_last.first - 1)
          IN  /\ enc_last.kind = "err"
              /\ enc_last.bytes = <<>>
              /\ k >= 1
              /\ frames[Len(frames)].size < 0
              /\ \A i \in 1..(k - 1) : CallFrames[i].size >= 0
              /\ total_data = 960 * (enc_last.first - 1) + 960 * k
              /\ Len(out_pcm) = queued - 960 * k
              /\ out_pcm = [i \in 1..Len(out_pcm) |-> total_data + i]
    /\ EncodeOk =>
          /\ Len(ReturnedPages) = Len(CallProduced)
          /\ \A i \in 1..Len(ReturnedPages) :
                ReturnedPages[i].header.page_sequence
                    = LittleEndian(pw_seq - Len(CallProduced) + i - 1, 4)

\* the codec fails on the second frame of a call after a page was written
\* for the first
C19_Witness ==
    /\ enc_last.op = "encode_page" /\ enc_last.err = "Opus"
    /\ Len(CallFrames) = 2
    /\ CallFrames[1].size > 0
    /\ enc_last.bytes = <<>>
    /\ pw_seq = 3

----------------------------------------------------------------------------
(* Claims about format errors of the PageReader *)

\* C17: next() fails as soon as 27 bytes are buffered and the header is
\* malformed, whether or not the segment table and the payload have
\* arrived: with the capture-pattern error when the magic is not "OggS"
\* (whatever the version byte), else with the version error when the
\* version is not 0. A failing call leaves the backlog as it was, so after
\* the first failure the backlog is the backlog of that call followed by
\* the bytes appended since, and every later next() returns the same error.
C17_FormatErrorsAreSticky ==
    /\ (last.op = "next" /\ Len(last.pre) >= 27
          /\ SubSeq(last.pre, 1, 4) # <<79, 103, 103, 83>>) =>
            (last.kind = "err" /\ last.err = "capture_pattern")
    /\ (last.op = "next" /\ Len(last.pre) >= 27
          /\ SubSeq(last.pre, 1, 4) = <<79, 103, 103, 83>>
          /\ last.pre[5] # 0) =>
            (last.kind = "err" /\ last.err = "version")
    /\ (last.op = "next" /\ last.kind = "err") =>
            /\ data = last.pre
            /\ Len(last.pre) >= 27
            /\ last.fail.err # ""
            /\ \/ SubSeq(last.pre, 1, 4) # <<79, 103, 103, 83>>
               \/ last.pre[5] # 0
    /\ last.fail.err # "" =>
            /\ data = last.fail.pre \o SubSeq(input, last.fail.at + 1, fed)
            /\ last.op = "next" =>
                  (last.kind = "err" /\ last.err = last.fail.err)

\* the header of a page with a bad version and one declared segment is
\* refused when only its 27 bytes are buffered, and again after the rest
\* of the page was appended
C17_Witness ==
    /\ last.op = "next" /\ last.kind = "err" /\ last.err = "version"
    /\ Len(last.fail.pre) = 27
    /\ last.fail.pre[27] = 1
    /\ last.fail.at < fed
    /\ Len(data) >= 29

\* a header with a bad magic and a bad version gives the capture-pattern
\* error
C17_WitnessBoth ==
    /\ last.op = "next" /\ last.kind = "err" /\ last.err = "capture_pattern"
    /\ SubSeq(last.pre, 1, 4) = <<79, 103, 103, 84>>
    /\ last.pre[5] = 1

----------------------------------------------------------------------------
(* Claims about the synchronous Decoder *)

\* the packets that start with neither "OpusHead" nor "OpusTags"
AudioOnly(pkts) ==
    SelectSeq(pkts, LAMBDA p :
        ~ \/ (Len(p) >= 8 /\ SubSeq(p, 1, 8) = <<79, 112, 117, 115, 72, 101, 97, 100>>)
          \/ (Len(p) >= 8 /\ SubSeq(p, 1, 8) = <<79, 112, 117, 115, 84, 97, 103, 115>>))

\* the sum of the entries lo..hi of a sequence of numbers, by halves
RECURSIVE TotalIn(_, _, _)
TotalIn(ns, lo, hi) ==
    IF lo > hi THEN 0
    ELSE IF lo = hi THEN ns[lo]
    ELSE TotalIn(ns, lo, (lo + hi) \div 2) + TotalIn(ns, (lo + hi) \div 2 + 1, hi)

Total(ns) == TotalIn(ns, 1, Len(ns))

\* the samples the codec gives for each packet of a sequence, and their sum
SamplesEach(pkts) == [i \in 1..Len(pkts) |-> FrameSamples(pkts[i])]
Samples(pkts) == Total(SamplesEach(pkts))

\* the packets the reader returned to the last decode call and the audio
\* packets that call decoded
CallGot == SubSeq(got, dec_last.first_got, Len(got))
CallDecoded == SubSeq(decoded, dec_last.first, Len(decoded))

DecodeOk == dec_last.op = "decode" /\ dec_last.kind \in {"some", "none"}

\* C11: a decode call that succeeds has decoded every packet the appended
\* bytes completed, except exactly those starting with "OpusHead" or
\* "OpusTags"; with off the write offset after them, it returns a slice iff
\* off >= flush_every_n_samples, the slice has length off and the offset is
\* reset to 0; otherwise it returns None and the offset stays off.
C11_FlushPolicy ==
    DecodeOk =>
        LET off == dec_last.before + Samples(CallDecoded)
        IN  /\ packets = <<>>
            /\ PageReaderNext(data).kind = "none"
            /\ CallDecoded = AudioOnly(CallGot)
            /\ off >= flush_every_n_samples =>
                  /\ dec_last.kind = "some"
                  /\ dec_last.len = off
                  /\ size_in_buf = 0
                  /\ returned # <<>> /\ returned[Len(returned)] = off
            /\ off < flush_every_n_samples =>
                  /\ dec_last.kind = "none"
                  /\ size_in_buf = off

\* a call that returns a slice after the two header packets were skipped
\* and an earlier call stayed below the threshold
C11_Witness ==
    /\ DecodeOk /\ dec_last.kind = "some"
    /\ dec_last.before > 0
    /\ dec_last.len = dec_last.before + 960
    /\ Len(got) = Len(decoded) + 2

\* a call that meets the threshold exactly
C11_WitnessExact ==
    /\ DecodeOk /\ dec_last.kind = "some"
    /\ dec_last.before > 0
    /\ dec_last.len = flush_every_n_samples

\* a packet that starts with "OpusTag" but not "OpusTags" is decoded
C11_WitnessNearMagic ==
    /\ DecodeOk
    /\ CallDecoded # <<>>
    /\ Len(CallDecoded[1]) = 8
    /\ SubSeq(CallDecoded[1], 1, 4) = <<79, 112, 117, 115>>

\* C18 as stated: the write offset never exceeds the buffer's length, and no
\* decode call, whatever the size of its chunk, fails for lack of room in
\* the buffer.
C18_AlwaysRoom ==
    /\ size_in_buf <= pcm_len
    /\ pcm_len = flush_every_n_samples + 5 * sample_rate
    /\ dec_last.err # "OpusBufferTooSmall"

\* the audio packets of the whole input, read in one go
AudioOfInput == AudioOnly(DrainPages(input, <<>>, <<>>, <<>>).packets)

\* C12 as stated: for a stream made of an Encoder's header_data and
\* encode_page outputs, whatever the chunks, every decode call succeeds,
\* the audio packets decoded are the stream's in order, and once the whole
\* stream is passed the samples returned plus the samples buffered are the
\* samples of the stream's audio packets.
C12_ChunkingIndependence ==
    input \in EncoderStreams \cup LongStreams =>
        /\ dec_last.kind \notin {"err", "panic"}
        /\ Len(decoded) <= Len(AudioOfInput)
        /\ decoded = SubSeq(AudioOfInput, 1, Len(decoded))
        /\ fed = Len(input) =>
              /\ decoded = AudioOfInput
              /\ Total(returned) + size_in_buf = Samples(AudioOfInput)

\* what C12 says holds of the Encoder's streams whose audio fits the buffer
C12_WithinBuffer ==
    (input \in EncoderStreams \cup LongStreams
       /\ Samples(AudioOfInput) <= 5 * sample_rate) =>
        /\ dec_last.kind \notin {"err", "panic"}
        /\ decoded = SubSeq(AudioOfInput, 1, Len(decoded))
        /\ fed = Len(input) =>
              /\ decoded = AudioOfInput
              /\ Total(returned) + size_in_buf = Samples(AudioOfInput)

\* the slices successive read() calls return for the packets the reader has
\* yielded so far, and the offset they leave
ReadOfGot == ReadRun(got, 0, pcm_len, flush_every_n_samples, <<>>)

\* C15 as stated: once the whole stream has been passed to decode, in
\* whatever chunks, the sample counts decode returned are the sample counts
\* successive read() calls return for the same stream.
C15_SameFlushSequence ==
    (fed = Len(input) /\ DecodeOk /\ data = <<>> /\ segments = <<>>) =>
        returned = ReadOfGot.returned

\* C15 (amended): read() tests the threshold after every decoded packet,
\* decode once per call: as long as every decode call has decoded at most
\* one audio packet, decode has returned the same sample counts as read()
\* and holds the same offset; for any chunks, the samples returned plus the
\* samples buffered are the same for both, and every slice either of them
\* returns holds at least flush_every_n_samples samples.
C15_SameSequencePacketwise ==
    /\ dec_last.single =>
          /\ returned = ReadOfGot.returned
          /\ size_in_buf = ReadOfGot.off
    /\ (dec_last.kind \notin {"err", "panic"}) =>
          Total(returned) + size_in_buf
              = Total(ReadOfGot.returned) + ReadOfGot.off
    /\ \A i \in 1..Len(returned) : returned[i] >= flush_every_n_samples
    /\ \A i \in 1..Len(ReadOfGot.returned) :
          ReadOfGot.returned[i] >= flush_every_n_samples

\* an Encoder stream of two frames or more passed in slices that complete
\* one packet at a time: two slices returned
C15_Witness ==
    /\ fed = Len(input) /\ DecodeOk
    /\ dec_last.single
    /\ Len(returned) >= 2
    /\ input \in EncoderStreams

\* the same stream passed whole: one slice where read() returns two
C15_WitnessWhole ==
    /\ fed = Len(input) /\ DecodeOk
    /\ Len(returned) = 1
    /\ Len(ReadOfGot.returned) >= 2

----------------------------------------------------------------------------
(* Claims about the AsyncDecoder *)

\* the packets of the bytes that have reached the reader, read in one go
PacketsArrived == DrainPages(arrived, <<>>, <<>>, <<>>).packets

\* C13: whatever the interleaving of sends, task steps and read() steps, the
\* bytes that reached the packet reader, then the bytes in the duplex
\* stream, then the rest of the chunk the task is writing, then the queued
\* chunks, are the bytes sent, in the order sent; the packets the reader
\* has yielded and still holds are the packets of the bytes that reached
\* it, and they were decoded in that order.
C13_InOrderDelivery ==
    /\ arrived \o pipe \o relay.cur \o Flatten(chan) = SubSeq(input, 1, fed)
    /\ got \o DrainPages(data, segments, packets, <<>>).packets = PacketsArrived
    /\ decoded = AudioOnly(got)

\* three chunks were queued together when the producer closed, and every
\* byte of the stream reached the reader
C13_Witness ==
    /\ tx.left >= 3
    /\ ~tx.open
    /\ arrived = input
    /\ Len(decoded) >= 2

\* C14: the task ends only when the handle is dropped and every chunk sent
\* has been written to the stream; read() returns None only when the task
\* has ended, every byte sent has reached the reader and every packet of
\* those bytes was decoded; and once the handle is dropped the task ends, a
\* pending read() returns, and a caller that keeps calling read() gets None.
C14_ShutdownReachesReader ==
    /\ [](relay.pc = "done" =>
            /\ ~tx.open /\ chan = <<>> /\ relay.cur = <<>>
            /\ arrived \o pipe = SubSeq(input, 1, fed))
    /\ []((dec_last.op = "read" /\ dec_last.kind = "end") =>
            /\ relay.pc = "done" /\ pipe = <<>>
            /\ arrived = SubSeq(input, 1, fed)
            /\ packets = <<>>
            /\ got = PacketsArrived
            /\ decoded = AudioOnly(got))
    /\ (~tx.open) ~> (relay.pc = "done")
    /\ (~tx.open /\ rd_pc = "wait") ~> (rd_pc = "idle")
    /\ (~tx.open) ~> (dec_last.op = "read" /\ dec_last.kind = "end")

\* the handle was dropped with chunks still queued, and read() has returned
\* None after the packets of the whole stream were decoded
C14_Witness ==
    /\ ~tx.open /\ tx.left >= 2
    /\ relay.pc = "done"
    /\ dec_last.op = "read" /\ dec_last.kind = "end"
    /\ fed = Len(input)
    /\ Len(decoded) >= 2

\* C20: read() returns a slice only when the offset has reached the
\* threshold, with the packet decoded last: the slice is shorter than the
\* threshold plus that packet's samples; the slices returned and the
\* offset are those of the loop of read() run over the packets yielded so
\* far; at the end of the stream read() returns None and keeps the offset,
\* which is below the threshold, and every later read() returns None with
\* the same offset: those samples are never returned.
C20_NoFlushAtStreamEnd ==
    /\ returned = ReadOfGot.returned
    /\ size_in_buf = ReadOfGot.off
    /\ Total(returned) + size_in_buf = Samples(decoded)
    /\ (dec_last.op = "read" /\ dec_last.kind = "some") =>
          /\ dec_last.len >= flush_every_n_samples
          /\ size_in_buf = 0
          /\ decoded # <<>>
          /\ dec_last.len - FrameSamples(decoded[Len(decoded)])
                < flush_every_n_samples
          /\ returned[Len(returned)] = dec_last.len
    /\ (dec_last.op = "read" /\ dec_last.kind = "end") =>
          /\ size_in_buf < flush_every_n_samples
          /\ size_in_buf >= dec_last.before
    /\ dec_last.ends >= 1 =>
          /\ dec_last.op = "read" => dec_last.kind = "end"
          /\ size_in_buf = dec_last.left
          /\ Total(returned) = Samples(decoded) - dec_last.left

\* the stream ended with samples below the threshold in the buffer, and a
\* second read() returned None as well
C20_Witness ==
    /\ dec_last.op = "read" /\ dec_last.kind = "end"
    /\ dec_last.ends = 2
    /\ dec_last.left > 0
    /\ size_in_buf = dec_last.left
    /\ returned # <<>>

====
